---- MODULE Spec2Model ----
(***************************************************************************)
(* NorthStar Hub kernel (src/kernel.py): the audit pipeline               *)
(* audit_credit_report -> _run_gemini_audit -> _normalize_contract ->      *)
(* _evidence_gate -> _confidence_gate, the manifest cache                  *)
(* (ManifestManager) and the retry loop around the model call.             *)
(*                                                                         *)
(* Reals are kept in hundredths (0.70 is 70), sleeps in half seconds       *)
(* (1.5 s is 3).                                                           *)
(***************************************************************************)
EXTENDS Integers, Sequences, FiniteSets, TLC

(***************************************************************************)
(* JSON values as json.loads yields them, one record shape for all kinds.  *)
(* k is the Python type, s the text of a str, n the number (an int as is,  *)
(* a float in hundredths, a bool as 0/1, a list or dict by its length).    *)
(***************************************************************************)
JNull == [k |-> "null", s |-> "", n |-> 0]

(* A key the mapping does not hold; dict.get reads it as None. *)
JAbsent == [k |-> "absent", s |-> "", n |-> 0]

Get(v) == IF v.k = "absent" THEN JNull ELSE v

JStr(x) == [k |-> "str", s |-> x, n |-> 0]

JInt(i) == [k |-> "int", s |-> "", n |-> i]

JFloat(h) == [k |-> "float", s |-> "", n |-> h]

JNaN == [k |-> "nan", s |-> "", n |-> 0]

JBool(b) == [k |-> "bool", s |-> "", n |-> IF b THEN 1 ELSE 0]

JList(len) == [k |-> "list", s |-> "", n |-> len]

JDict(len) == [k |-> "dict", s |-> "", n |-> len]

(* Python truthiness, as used by `x or d`, `if x`, `not x`. *)
Truthy(v) ==
    CASE v.k = "null" -> FALSE
      [] v.k = "str" -> v.s # ""
      [] v.k = "nan" -> TRUE
      [] OTHER -> v.n # 0

(* str.upper() on the texts the model draws. *)
Upper(s) ==
    CASE s = "ok" -> "OK"
      [] s = "risk_detected" -> "RISK_DETECTED"
      [] s = "high" -> "HIGH"
      [] s = "severe" -> "SEVERE"
      [] s = "unknown" -> "UNKNOWN"
      [] s = "bogus" -> "BOGUS"
      [] s = "Unknown" -> "UNKNOWN"
      [] s = "Account Status" -> "ACCOUNT STATUS"
      [] s = "Balance" -> "BALANCE"
      [] s = "None" -> "NONE"
      [] s = "True" -> "TRUE"
      [] s = "False" -> "FALSE"
      [] s = "nan" -> "NAN"
      [] s = "[..]" -> "[..]"
      [] s = "{..}" -> "{..}"
      [] OTHER -> s

(* str.lower() on the path suffixes the model draws. *)
Lower(s) ==
    CASE s = ".PDF" -> ".pdf"
      [] s = ".TXT" -> ".txt"
      [] OTHER -> s

(* str.strip() on the texts the model draws. *)
Strip(s) ==
    CASE s = " Unknown " -> "Unknown"
      [] s = "  " -> ""
      [] s = " 4 " -> "4"
      [] OTHER -> s

(* The decimal text of a float held in hundredths: repr(1.5) = "1.5". *)
FloatText(h) ==
    LET a == IF h < 0 THEN 0 - h ELSE h
        frac == a % 100
    IN (IF h < 0 THEN "-" ELSE "") \o ToString(a \div 100) \o "."
       \o (IF frac % 10 = 0 THEN ToString(frac \div 10)
           ELSE IF frac < 10 THEN "0" \o ToString(frac)
           ELSE ToString(frac))

(* str(x) *)
PyStr(v) ==
    CASE v.k = "str" -> v.s
      [] v.k = "int" -> ToString(v.n)
      [] v.k = "float" -> FloatText(v.n)
      [] v.k = "nan" -> "nan"
      [] v.k = "bool" -> IF v.n = 1 THEN "True" ELSE "False"
      [] v.k = "null" -> "None"
      [] v.k = "list" -> "[..]"
      [] OTHER -> "{..}"

(* The texts float() parses, with the value in hundredths (NaN apart). *)
FloatLiterals == {"0.9", "0.4", "nan"}

ParseFloat(s) ==
    CASE s = "0.9" -> JFloat(90)
      [] s = "0.4" -> JFloat(40)
      [] OTHER -> JNaN

(* The texts int() parses. *)
IntLiterals == {"4", " 4 "}

ParseInt(s) == 4

(* src/kernel.py _coerce_float: float(x), the default when float() raises. *)
_coerce_float(x, default) ==
    CASE x.k = "float" -> x
      [] x.k = "nan" -> x
      [] x.k = "int" -> JFloat(x.n * 100)
      [] x.k = "bool" -> JFloat(x.n * 100)
      [] x.k = "str" -> IF x.s \in FloatLiterals THEN ParseFloat(x.s) ELSE default
      [] OTHER -> default

(* int() of a float truncates toward zero. *)
Trunc(h) == IF h < 0 THEN 0 - ((0 - h) \div 100) ELSE h \div 100

(* src/kernel.py _coerce_int: int(x), the default when int() raises. *)
_coerce_int(x, default) ==
    CASE x.k = "int" -> x
      [] x.k = "bool" -> JInt(x.n)
      [] x.k = "float" -> JInt(Trunc(x.n))
      [] x.k = "str" -> IF x.s \in IntLiterals THEN JInt(ParseInt(x.s)) ELSE default
      [] OTHER -> default

(* IEEE comparison of two coerced floats: false when either is NaN. *)
FLt(a, b) == a.k = "float" /\ b.k = "float" /\ a.n < b.n

(* max in the place of min. *)
M_PyMax(a, b) == IF FLt(a, b) THEN b ELSE a

(* Python's min(a, b): b when b < a, else a (so a NaN first argument stays). *)
PyMin(a, b) == IF FLt(b, a) THEN b ELSE a

(***************************************************************************)
(* CANON: src/kernel.py lines 33-39, 60-61.                                *)
(***************************************************************************)
KERNEL_VERSION == "NS-DK-2.1"

NOTES_IMMUTABLE == "TECHNICAL_DATA_CONSISTENCY_CHECK_ONLY"

ALLOWED_STATUS == {"OK", "RISK_DETECTED", "INCOMPLETE", "UNKNOWN", "SCOPE_LIMITATION"}

ALLOWED_RISK == {"NONE", "LOW", "MEDIUM", "HIGH"}

CONFIDENCE_GATE == 70

MAX_RETRIES == 3

BASE_BACKOFF_S == 4

(* _utc_iso(): the text of the clock's reading, whatever the clock says. *)
_utc_iso == JStr("<utcnow>")

(* A findings value: k = "list" with its items, or another type. *)
FList(items) == [k |-> "list", items |-> items]

FOther(kind) == [k |-> kind, items |-> <<>>]

_empty_payload(status, risk_level, confidence, notes_extra) ==
    [version |-> JStr(KERNEL_VERSION),
     timestamp |-> _utc_iso,
     status |-> status,
     risk_level |-> risk_level,
     findings |-> FList(<<>>),
     confidence |-> confidence,   \* float() of what is a float in every caller
     notes |-> IF notes_extra = "" THEN NOTES_IMMUTABLE
               ELSE NOTES_IMMUTABLE \o " | " \o notes_extra]

(***************************************************************************)
(* What the model call may answer.                                         *)
(*                                                                         *)
(* A mapping m (a JSON object, or what dict() makes of a list of pairs)    *)
(* holds the seven contract keys; an absent key reads as None under        *)
(* dict.get, so it is held as JNull.  A finding is held with the type of   *)
(* the list element (k), the type of its "evidence" value (ev: "dict",     *)
(* "falsy" for a missing, None or empty one, "other" for any other truthy  *)
(* value) and the three evidence fields.                                   *)
(***************************************************************************)
Finding(type, doc, page, field) ==
    [k |-> "dict", ev |-> "dict", type |-> type,
     document |-> doc, page |-> page, field |-> field]

FindingNoEvidence(type, evkind) ==
    [k |-> "dict", ev |-> evkind, type |-> type,
     document |-> JAbsent, page |-> JAbsent, field |-> JAbsent]

FindingNotDict ==
    [k |-> "str", ev |-> "falsy", type |-> "",
     document |-> JAbsent, page |-> JAbsent, field |-> JAbsent]

EmptyMapping ==
    [version |-> JAbsent, timestamp |-> JAbsent, status |-> JAbsent,
     risk_level |-> JAbsent, findings |-> FOther("absent"),
     confidence |-> JAbsent, notes |-> JAbsent]

(* dict(payload or {}), line 427 of _normalize_contract and line 459 of     *)
(* _evidence_gate: the copy, or the exception dict() raises.               *)
(*   falsy values (None, False, 0, "", [], {})     -> {}                   *)
(*   a dict, or a list of 2-sequences              -> that mapping         *)
(*   a non-empty str, a list with an element whose length is not 2         *)
(*                                                 -> ValueError           *)
(*   a number, True, a list with a scalar element  -> TypeError            *)
PyDict(raw) ==
    CASE raw.k \in {"null", "false", "zero", "estr", "elist"} ->
            [exc |-> "", m |-> EmptyMapping]
      [] raw.k \in {"obj", "pairs"} -> [exc |-> "", m |-> raw.m]
      [] raw.k \in {"str", "list_len"} -> [exc |-> "ValueError", m |-> EmptyMapping]
      [] OTHER -> [exc |-> "TypeError", m |-> EmptyMapping]

(* Lines 432-441: str(x or default).upper(), then the allowed-set test. *)
EnumOf(x, default, allowed) ==
    LET u == Upper(PyStr(IF Truthy(Get(x)) THEN x ELSE JStr(default)))
    IN IF u \in allowed THEN u ELSE default

(* The normalizer keeping a notes string the response carries. *)
M_normalize_contract_keeps_notes(raw) ==
    LET d == PyDict(raw)
        m == d.m
    IN [exc |-> d.exc,
        p |-> [version |-> JStr(KERNEL_VERSION),
               timestamp |-> IF Truthy(Get(m.timestamp)) THEN m.timestamp
                             ELSE _utc_iso,
               status |-> EnumOf(m.status, "UNKNOWN", ALLOWED_STATUS),
               risk_level |-> EnumOf(m.risk_level, "NONE", ALLOWED_RISK),
               findings |-> IF m.findings.k = "list" THEN m.findings
                            ELSE FList(<<>>),
               confidence |-> _coerce_float(Get(m.confidence), JFloat(0)),
               notes |-> IF m.notes.k = "str" /\ m.notes.s # "" THEN m.notes.s
                         ELSE NOTES_IMMUTABLE]]

(* _normalize_contract, lines 423-451: [exc, p]. *)
_normalize_contract(raw) ==
    LET d == PyDict(raw)
        m == d.m
    IN [exc |-> d.exc,
        p |-> [version |-> JStr(KERNEL_VERSION),
               timestamp |-> IF Truthy(Get(m.timestamp)) THEN m.timestamp
                             ELSE _utc_iso,
               status |-> EnumOf(m.status, "UNKNOWN", ALLOWED_STATUS),
               risk_level |-> EnumOf(m.risk_level, "NONE", ALLOWED_RISK),
               findings |-> IF m.findings.k = "list" THEN m.findings
                            ELSE FList(<<>>),
               confidence |-> _coerce_float(Get(m.confidence), JFloat(0)),
               notes |-> NOTES_IMMUTABLE]]

(* Lines 466-484: the test a finding passes to stay in the list. *)
EvidenceValid(f) ==
    /\ f.k = "dict"
    /\ f.ev # "other"
    /\ Truthy(Get(f.document))
    /\ Truthy(Get(f.field))
    /\ Get(f.page).k # "null"
    /\ Upper(Strip(PyStr(f.page))) # "UNKNOWN"
    /\ Upper(Strip(PyStr(f.field))) # "UNKNOWN"

(* A coercion that also moves the page from 0-based to 1-based. *)
M_CoercePage_one_based(f) ==
    LET q == _coerce_int(f.page, f.page)
    IN [f EXCEPT !.page = IF q.k = "int" THEN JInt(q.n + 1) ELSE q]

(* Line 482: the page of a kept finding is coerced to int when int() takes it. *)
CoercePage(f) == [f EXCEPT !.page = _coerce_int(f.page, f.page)]

FilterFindings(items) ==
    LET kept == SelectSeq(items, EvidenceValid)
    IN [i \in 1..Len(kept) |-> CoercePage(kept[i])]

(* The gate without the downgrade of lines 488-491. *)
M_evidence_gate_no_downgrade(p) ==
    IF p.findings.k # "list" THEN [p EXCEPT !.findings = FList(<<>>)]
    ELSE [p EXCEPT !.findings = FList(FilterFindings(p.findings.items))]

(* _evidence_gate, lines 454-493. *)
_evidence_gate(p) ==
    IF p.findings.k # "list" THEN [p EXCEPT !.findings = FList(<<>>)]
    ELSE
      LET valid == FilterFindings(p.findings.items)
          q == [p EXCEPT !.findings = FList(valid)]
      IN IF p.status = "RISK_DETECTED" /\ valid = <<>>
         THEN [q EXCEPT !.status = "UNKNOWN",
                        !.risk_level = "NONE",
                        !.confidence =
                            PyMin(_coerce_float(p.confidence, JFloat(0)), JFloat(50))]
         ELSE q

(* The gate collapsing the findings but passing the status on. *)
M_confidence_gate_keeps_status(p) ==
    LET c == _coerce_float(p.confidence, JFloat(0))
    IN IF FLt(c, JFloat(CONFIDENCE_GATE))
       THEN _empty_payload(p.status, "NONE", c, "CONFIDENCE_GATE_ACTIVE")
       ELSE p

(* The gate collapsing the result without keeping the measured confidence. *)
M_confidence_gate_drops_confidence(p) ==
    LET c == _coerce_float(p.confidence, JFloat(0))
    IN IF FLt(c, JFloat(CONFIDENCE_GATE))
       THEN _empty_payload("UNKNOWN", "NONE", JFloat(0), "CONFIDENCE_GATE_ACTIVE")
       ELSE p

(* The gate adding its suffix to the notes the payload already carries. *)
M_confidence_gate_appends_suffix(p) ==
    LET c == _coerce_float(p.confidence, JFloat(0))
    IN IF FLt(c, JFloat(CONFIDENCE_GATE))
       THEN [_empty_payload("UNKNOWN", "NONE", c, "") EXCEPT
                !.notes = p.notes \o " | " \o "CONFIDENCE_GATE_ACTIVE"]
       ELSE p

(* _confidence_gate, lines 496-506. *)
_confidence_gate(p) ==
    LET c == _coerce_float(p.confidence, JFloat(0))
    IN IF FLt(c, JFloat(CONFIDENCE_GATE))
       THEN _empty_payload("UNKNOWN", "NONE", c, "CONFIDENCE_GATE_ACTIVE")
       ELSE p

(***************************************************************************)
(* Bounds and the values the environment is drawn from.                    *)
(***************************************************************************)
MaxFindings == 2

MaxPolls == 2

(* Findings the model may report. *)
F_good == Finding("METRO2_MISMATCH", JStr("report.pdf"), JInt(4), JStr("Account Status"))

F_docUnknown == Finding("DATA_VALUE_INCONSISTENCY", JStr("UNKNOWN"), JInt(1), JStr("Balance"))

F_pageUnknown == Finding("TEMPORAL_INCONSISTENCY", JStr("report.pdf"), JStr(" Unknown "), JStr("Balance"))

F_noEvidence == FindingNoEvidence("BTM_MISSING_MAPPING", "falsy")

F_pageText == Finding("DATA_FORMAT_INCONSISTENCY", JStr("report.pdf"), JStr(" 4 "), JStr("Balance"))

F_pageEmpty == Finding("DATA_FORMAT_INCONSISTENCY", JStr("report.pdf"), JStr(""), JStr("Balance"))

F_pageNull == Finding("DATA_FORMAT_INCONSISTENCY", JStr("report.pdf"), JNull, JStr("Balance"))

F_pageFloat == Finding("DATA_FORMAT_INCONSISTENCY", JStr("report.pdf"), JFloat(150), JStr("Balance"))

F_fieldUnknown == Finding("CODE_MAPPING_INCONSISTENCY", JStr("report.pdf"), JInt(2), JStr("unknown"))

F_fieldMissing == Finding("CODE_MAPPING_INCONSISTENCY", JStr("report.pdf"), JInt(2), JAbsent)

F_docEmpty == Finding("CODE_MAPPING_INCONSISTENCY", JStr(""), JInt(2), JStr("Balance"))

F_evOther == FindingNoEvidence("METRO2_MISMATCH", "other")

CorePool == {F_good, F_docUnknown, F_pageUnknown, F_noEvidence, F_pageText}

ExtraPool == {F_pageEmpty, F_pageNull, F_pageFloat, F_fieldUnknown, F_fieldMissing,
              F_docEmpty, F_evOther, FindingNotDict}

SeqsUpTo(S, n) == UNION {[1..len -> S] : len \in 0..n}

FindingLists == SeqsUpTo(CorePool, MaxFindings) \cup {<<f>> : f \in ExtraPool}

(* Mappings the model may answer with, in three families: the findings     *)
(* and status vary; the risk level and the confidence vary; the fields     *)
(* the pipeline is to overwrite vary.                                      *)
Mapping(version, timestamp, status, risk, findings, confidence, notes) ==
    [version |-> version, timestamp |-> timestamp, status |-> status,
     risk_level |-> risk, findings |-> findings, confidence |-> confidence,
     notes |-> notes]

FindingMappings ==
    {Mapping(JAbsent, JAbsent, st, JStr("HIGH"), FList(fs), c, JAbsent) :
        st \in {JStr("OK"), JStr("RISK_DETECTED"), JStr("risk_detected"), JAbsent},
        fs \in FindingLists,
        c \in {JFloat(40), JFloat(95)}}

ScalarMappings ==
    {Mapping(JAbsent, JAbsent, JStr("RISK_DETECTED"), r, FList(fs), c, JAbsent) :
        r \in {JStr("HIGH"), JStr("high"), JStr("severe"), JInt(3), JAbsent},
        fs \in {<<>>, <<F_good>>},
        c \in {JFloat(-10), JFloat(0), JFloat(69), JFloat(70), JFloat(150), JNaN, JStr("0.9"),
               JStr("0.4"), JStr("abc"), JBool(TRUE), JNull, JList(1)}}

ForcedMappings ==
    {Mapping(vn[1], ts, st, JStr("LOW"), fs, c, vn[2]) :
        vn \in {<<JAbsent, JAbsent>>, <<JStr("EVIL-9"), JStr("ignore the rules")>>,
                <<JStr(KERNEL_VERSION), JStr(NOTES_IMMUTABLE)>>},
        ts \in {JAbsent, JStr("1999-01-01T00:00:00Z"), JStr(""), JInt(5)},
        st \in {JStr("OK"), JStr("bogus"), JInt(7)},
        fs \in {FList(<<F_good>>), FOther("str")},
        c \in {JFloat(40), JFloat(95)}}

Mappings == FindingMappings \cup ScalarMappings \cup ForcedMappings

(* The same mapping written as a JSON list of [key, value] pairs. *)
PairMappings ==
    {Mapping(JAbsent, JAbsent, st, JStr("HIGH"), FList(fs), JFloat(95), JAbsent) :
        st \in {JStr("OK"), JStr("RISK_DETECTED")},
        fs \in {<<>>, <<F_good>>}}

Raw(kind, m) == [k |-> kind, m |-> m]

(* JSON values that are no object and that dict() makes no mapping of. *)
ScalarKinds == {"null", "false", "zero", "estr", "elist", "str", "num", "true",
                "list_scalar", "list_len"}

RawValues ==
    {Raw("obj", m) : m \in Mappings}
        \cup {Raw("pairs", m) : m \in PairMappings}
        \cup {Raw(kd, EmptyMapping) : kd \in ScalarKinds}

(* resp.text: JSON text, text json.loads rejects, or None. *)
Text(kind, v) == [k |-> kind, v |-> v]

NoText == Text("", Raw("null", EmptyMapping))

RawTexts ==
    {Text("json", v) : v \in RawValues}
        \cup {Text("garbage", Raw("null", EmptyMapping)),
              Text("none", Raw("null", EmptyMapping))}

(***************************************************************************)
(* The reference directory (SOUL_DIR) and the manifest.                    *)
(***************************************************************************)
(* The *.pdf names the directory may hold, in sorted() order. *)
SoulOrder == <<"BTM_EXPERIAN.pdf", "METRO2.pdf">>

SoulNames == {SoulOrder[j] : j \in 1..Len(SoulOrder)}

Absent == [kind |-> "absent", size |-> 0, mtime |-> 0]

(* A regular file, with st_size and st_mtime (half seconds). *)
File(size, mtime) == [kind |-> "file", size |-> size, mtime |-> mtime]

(* A directory whose name ends in .pdf: glob lists it, is_file() is false. *)
Dir == [kind |-> "dir", size |-> 0, mtime |-> 0]

(* sorted(folder.glob("*.pdf")), line 225. *)
Listing(fs) == SelectSeq(SoulOrder, LAMBDA nm : fs[nm].kind # "absent")

(* ManifestManager._fingerprint, lines 207-209: name, size, int(mtime). *)
_fingerprint(nm, a) == <<nm, a.size, a.mtime \div 2>>

Entry(h, nm) == [name |-> h, uri |-> h, local |-> nm]

NoManifest == [k |-> "absent", data |-> <<>>]

CorruptManifest == [k |-> "corrupt", data |-> <<>>]

Manifest(d) == [k |-> "json", data |-> d]

(* A manager that starts from an empty mapping whatever the file holds. *)
M_load_nothing(file) == <<>>

(* ManifestManager._load, lines 195-201. *)
_load(file) == IF file.k = "json" THEN file.data ELSE <<>>

(* A liveness test that takes any answer of files.get for a live handle. *)
M_remote_active_any_answer(answer) == answer # "raise"

(* ManifestManager._remote_active, lines 211-216, on what files.get answers *)
(* ("raise" when it raises).                                               *)
_remote_active(answer) == answer = "ACTIVE"

(* Line 233: the entry is reused when it exists, names a handle and the    *)
(* handle is ACTIVE.                                                       *)
HasHandle(d, key) == key \in DOMAIN d /\ d[key].name # 0

(* _select_btm_files, lines 293-330: the names matching the bureau's       *)
(* patterns.                                                               *)
_select_btm_files(fs, bureau) ==
    {nm \in SoulNames :
        /\ fs[nm].kind # "absent"
        /\ bureau = "EXPERIAN"
        /\ nm = "BTM_EXPERIAN.pdf"}

Bureaus == {"EXPERIAN", "UNKNOWN"}

MAX_PDF_PAGES == 1000

(* What files.upload and files.get may answer: a state name, or raising. *)
FileStates == {"PROCESSING", "ACTIVE", "FAILED"}

(***************************************************************************)
(* The argument of audit_credit_report.                                    *)
(***************************************************************************)
Path(stem, ext, exists) == [k |-> "str", stem |-> stem, ext |-> ext, exists |-> exists]

PathInputs ==
    {[k |-> "none", stem |-> "", ext |-> "", exists |-> FALSE],
     [k |-> "int", stem |-> "", ext |-> "", exists |-> FALSE],
     Path("", "", FALSE)}
        \cup {Path("tmp/report", e, x) : e \in {".pdf", ".PDF", ".txt"}, x \in BOOLEAN}

(* The checks without the suffix test of line 647. *)
M_InputRejectionNoSuffix(fp) ==
    IF fp.k # "str" \/ fp.stem \o fp.ext = "" THEN "BAD_INPUT"
    ELSE IF ~fp.exists THEN "FILE_NOT_FOUND"
    ELSE ""

(* Lines 641-648: the tag of the rejection, "" when the path is accepted. *)
InputRejection(fp) ==
    IF fp.k # "str" \/ fp.stem \o fp.ext = "" THEN "BAD_INPUT"
    ELSE IF ~fp.exists THEN "FILE_NOT_FOUND"
    ELSE IF Lower(fp.ext) # ".pdf" THEN "NOT_PDF"
    ELSE ""

(***************************************************************************)
(* State.                                                                  *)
(***************************************************************************)
VARIABLES
    pc,          \* the statement audit_credit_report is at
    file_path,   \* its argument
    soul_dir,    \* "dir" when SOUL_DIR is a directory, else "missing"
    files,       \* the *.pdf entries of SOUL_DIR
    disk,        \* the manifest file
    data,        \* ManifestManager.data
    idx,         \* position of ensure_active_pdf_files in the listing
    refs,        \* its refs list
    handle,      \* the remote file an upload is waiting on
    polls,       \* files.get calls made by that wait (see NextPoll)
    next_handle, \* the name the service gives the next upload
    uploads,     \* files.upload calls made so far, per reference file
    stale,       \* reference files whose handle this call's liveness query
                 \* found not ACTIVE
    seen,        \* this ensure_active_pdf_files call: the handles files.get
                 \* answered ACTIVE for and the handles files.upload returned
    calls,       \* ensure_active_pdf_files calls begun so far
    changed,     \* reference files that differ from what the previous call saw
    prev,        \* how the previous ensure_active_pdf_files call ended
    other,       \* a second run sharing the manifest file: its place and its data
    bureau_id,
    btm_present,
    report_file,
    i,           \* attempt of _call_model_with_retries
    last_err,
    sleeps,      \* the backoff delays slept
    model_calls, \* generate_content calls made
    raw_text,    \* resp.text
    payload,
    exc,         \* the exception travelling to audit_credit_report's handler
    raised,      \* the exception that left audit_credit_report, "" if none
    result,      \* what audit_credit_report returned
    events       \* what this run did: the collaborators it touched, the
                 \* functions it entered, how reference resolution ended

vars == <<pc, file_path, soul_dir, files, disk, data, idx, refs, handle, polls,
          next_handle, uploads, stale, seen, calls, changed, prev, other, bureau_id, btm_present, report_file, i, last_err, sleeps,
          model_calls, raw_text, payload, exc, raised, result, events>>

env == <<file_path, soul_dir, files, calls, changed, prev, other>>

manifest == <<disk, data, idx, refs>>

upload == <<handle, polls, next_handle, uploads, stale, seen>>

retry == <<i, last_err, sleeps, model_calls>>

NoPayload == _empty_payload("", "", JFloat(0), "")

(* A call that has queried and uploaded nothing yet. *)
NothingSeen == [live |-> {}, fresh |-> {}]

(* No call of ensure_active_pdf_files has ended yet. *)
NoCall == [ended |-> "", refs |-> <<>>, uploads |-> [nm \in SoulNames |-> 0],
           files |-> [nm \in SoulNames |-> Absent]]

(* No second run. *)
NoOther == [pc |-> "off", data |-> <<>>, idx |-> 0]

(* The manifest a former run left: METRO2.pdf uploaded as file 1. *)
CachedManifest ==
    Manifest((_fingerprint("METRO2.pdf", File(10, 201)) :> Entry(1, "METRO2.pdf")))

(* The same with an entry that names no handle. *)
NamelessManifest ==
    Manifest((_fingerprint("METRO2.pdf", File(10, 201)) :> Entry(0, "METRO2.pdf")))

SoulScenarios ==
    {[nm \in SoulNames |-> Absent],
     [nm \in SoulNames |-> IF nm = "METRO2.pdf" THEN File(10, 201) ELSE Absent],
     [nm \in SoulNames |-> IF nm = "METRO2.pdf" THEN Dir ELSE Absent],
     [nm \in SoulNames |-> IF nm = "METRO2.pdf" THEN File(10, 201) ELSE File(7, 100)]}

Init ==
    /\ pc = "check_input"
    /\ file_path \in PathInputs
    /\ soul_dir \in {"dir", "missing"}
    /\ files \in SoulScenarios
    /\ soul_dir = "missing" => files = [nm \in SoulNames |-> Absent]
    /\ disk \in {NoManifest, CorruptManifest, CachedManifest, NamelessManifest}
    /\ data = <<>>
    /\ idx = 0
    /\ refs = <<>>
    /\ handle = 0
    /\ polls = 0
    /\ next_handle = 2
    /\ uploads = [nm \in SoulNames |-> 0]
    /\ stale = {}
    /\ seen = NothingSeen
    /\ calls = 1
    /\ changed = {}
    /\ prev = NoCall
    /\ other = NoOther
    /\ bureau_id = ""
    /\ btm_present = FALSE
    /\ report_file = 0
    /\ i = 0
    /\ last_err = ""
    /\ sleeps = <<>>
    /\ model_calls = 0
    /\ raw_text = NoText
    /\ payload = NoPayload
    /\ exc = ""
    /\ raised = ""
    /\ result = NoPayload
    /\ events = {}

(* return p *)
Return(p) ==
    /\ result' = p
    /\ pc' = "done"

(* An exception no inner handler takes: it reaches line 655. *)
Raise(e) ==
    /\ exc' = e
    /\ pc' = "except"

Touch(e) == events' = events \cup {e}

(***************************************************************************)
(* audit_credit_report, lines 634-656.                                     *)
(***************************************************************************)
CheckInput ==
    /\ pc = "check_input"
    /\ IF InputRejection(file_path) # ""
       THEN Return(_empty_payload("INCOMPLETE", "NONE", JFloat(0),
                                  InputRejection(file_path)))
       ELSE pc' = "mkdirs" /\ UNCHANGED result
    /\ UNCHANGED <<env, manifest, upload, retry, bureau_id, btm_present, report_file,
                   raw_text, payload, exc, raised, events>>

(* Lines 650-651: os.makedirs and Path.mkdir, which may raise. *)
MakeDirs ==
    /\ pc = "mkdirs"
    /\ \E ok \in BOOLEAN :
          IF ok THEN pc' = "client" /\ UNCHANGED exc
          ELSE Raise("PermissionError")
    /\ UNCHANGED <<env, manifest, upload, retry, bureau_id, btm_present, report_file,
                   raw_text, payload, raised, result, events>>

(* A handler that names one exception type only. *)
M_CaughtRuntimeErrorOnly(e) == e = "RuntimeError"

(* Line 655: except Exception takes every exception the run can raise. *)
Caught(e) == TRUE

AuditExcept ==
    /\ pc = "except"
    /\ IF Caught(exc)
       THEN /\ Return(_empty_payload("UNKNOWN", "NONE", JFloat(0),
                                     "KERNEL_FAIL:" \o exc))
            /\ UNCHANGED raised
       ELSE /\ raised' = exc
            /\ pc' = "done"
            /\ UNCHANGED result
    /\ UNCHANGED <<env, manifest, upload, retry, bureau_id, btm_present, report_file,
                   raw_text, payload, exc, events>>

(***************************************************************************)
(* _run_gemini_audit, lines 533-628.                                       *)
(***************************************************************************)
(* Line 534, _client(): RuntimeError("MISSING_API_KEY") without a key. *)
MakeClient ==
    /\ pc = "client"
    /\ \E key \in BOOLEAN :
          IF key THEN pc' = "page_guard" /\ Touch("client") /\ UNCHANGED exc
          ELSE Raise("RuntimeError") /\ UNCHANGED events
    /\ UNCHANGED <<env, manifest, upload, retry, bureau_id, btm_present, report_file,
                   raw_text, payload, raised, result>>

(* Lines 537-539; pages = 0 stands for None (PyPDF2 missing or failing). *)
PageGuard ==
    /\ pc = "page_guard"
    /\ \E pages \in {0, 12, MAX_PDF_PAGES + 1} :
          IF pages > MAX_PDF_PAGES
          THEN Return(_empty_payload("INCOMPLETE", "NONE", JFloat(0),
                         "PDF_PAGE_LIMIT_EXCEEDED:" \o ToString(pages) \o ">"
                             \o ToString(MAX_PDF_PAGES)))
          ELSE pc' = "detect_bureau" /\ UNCHANGED result
    /\ UNCHANGED <<env, manifest, upload, retry, bureau_id, btm_present, report_file,
                   raw_text, payload, exc, raised, events>>

(* Line 542. *)
DetectBureau ==
    /\ pc = "detect_bureau"
    /\ bureau_id' \in Bureaus
    /\ pc' = "manifest_load"
    /\ UNCHANGED <<env, manifest, upload, retry, btm_present, report_file,
                   raw_text, payload, exc, raised, result, events>>

(* Line 545: ManifestManager(MANIFEST_PATH, client) reads the manifest. *)
ManifestLoad ==
    /\ pc = "manifest_load"
    /\ data' = _load(disk)
    /\ Touch("manifest_read")
    /\ pc' = "soul_dir"
    /\ UNCHANGED <<env, disk, idx, refs, upload, retry, bureau_id, btm_present,
                   report_file, raw_text, payload, exc, raised, result>>

(* Lines 547-548. *)
SoulDirCheck ==
    /\ pc = "soul_dir"
    /\ IF soul_dir # "dir"
       THEN Return(_empty_payload("INCOMPLETE", "NONE", JFloat(0), "SOUL_DIR_MISSING"))
       ELSE pc' = "ensure_begin" /\ UNCHANGED result
    /\ UNCHANGED <<env, manifest, upload, retry, bureau_id, btm_present, report_file,
                   raw_text, payload, exc, raised, events>>

(* Lines 553-554: whatever ensure_active_pdf_files raises ends the run. *)
EnsureRaise(e, touched) ==
    /\ Return(_empty_payload("INCOMPLETE", "NONE", JFloat(0),
                             "SOUL_MANIFEST_FAIL:" \o e))
    /\ events' = events \cup touched \cup {"refs_raised"}

(***************************************************************************)
(* ManifestManager.ensure_active_pdf_files, lines 218-249.                 *)
(***************************************************************************)
(* Lines 219-223. *)
EnsureBegin ==
    /\ pc = "ensure_begin"
    /\ IF soul_dir = "missing"
       THEN EnsureRaise("FileNotFoundError", {}) /\ UNCHANGED <<idx, refs>>
       ELSE /\ idx' = 1
            /\ refs' = <<>>
            /\ pc' = "ensure_loop"
            /\ UNCHANGED <<result, events>>
    /\ UNCHANGED <<env, disk, data, upload, retry, bureau_id, btm_present,
                   report_file, raw_text, payload, exc, raised>>

CurName == Listing(files)[idx]

CurKey == _fingerprint(CurName, files[CurName])

InLoop == pc = "ensure_loop" /\ idx <= Len(Listing(files))

(* Lines 226-227. *)
EnsureSkip ==
    /\ InLoop
    /\ files[CurName].kind # "file"
    /\ idx' = idx + 1
    /\ UNCHANGED <<pc, env, disk, data, refs, upload, retry, bureau_id, btm_present,
                   report_file, raw_text, payload, exc, raised, result, events>>

(* Line 229: p.stat() raises when the file has gone since is_file(). *)
EnsureStatRaise ==
    /\ InLoop
    /\ files[CurName].kind = "file"
    /\ EnsureRaise("FileNotFoundError", {"stat_failed"})
    /\ UNCHANGED <<env, disk, data, idx, refs, upload, retry, bureau_id, btm_present,
                   report_file, raw_text, payload, exc, raised>>

Ref(h, u, nm) == [name |-> h, uri |-> u, local |-> nm]

(* Lines 233-235. *)
EnsureReuse ==
    /\ InLoop
    /\ files[CurName].kind = "file"
    /\ HasHandle(data, CurKey)
    /\ \E answer \in FileStates \cup {"raise"} :
          /\ _remote_active(answer)
          /\ refs' = Append(refs, Ref(data[CurKey].name, data[CurKey].uri, CurName))
          /\ seen' = IF answer = "ACTIVE"
                     THEN [seen EXCEPT !.live = @ \cup {data[CurKey].name}]
                     ELSE seen
    /\ Touch("liveness")
    /\ idx' = idx + 1
    /\ UNCHANGED <<pc, env, disk, data, handle, polls, next_handle, uploads, stale,
                   retry, bureau_id, btm_present,
                   report_file, raw_text, payload, exc, raised, result>>

(* An upload that puts its entry in the place of the whole mapping. *)
M_Store_replaces_mapping(h) ==
    /\ data' = (CurKey :> Entry(h, CurName))
    /\ refs' = Append(refs, Ref(h, h, CurName))
    /\ idx' = idx + 1
    /\ pc' = "ensure_loop"

(* Lines 240-246. *)
Store(h) ==
    /\ data' = (CurKey :> Entry(h, CurName)) @@ data
    /\ refs' = Append(refs, Ref(h, h, CurName))
    /\ idx' = idx + 1
    /\ pc' = "ensure_loop"

(* Line 238, _upload_any up to the first look at the state (lines 134-153), *)
(* after a liveness query that did not answer ACTIVE when the entry names  *)
(* a handle.                                                               *)
EnsureUpload ==
    /\ InLoop
    /\ files[CurName].kind = "file"
    /\ HasHandle(data, CurKey) =>
          \E answer \in FileStates \cup {"raise"} : ~_remote_active(answer)
    /\ stale' = IF HasHandle(data, CurKey) THEN stale \cup {CurName} ELSE stale
    /\ uploads' = [uploads EXCEPT ![CurName] = @ + 1]
    /\ LET touched == IF HasHandle(data, CurKey) THEN {"liveness", "upload_soul"}
                      ELSE {"upload_soul"}
       IN \E out \in FileStates \cup {"raise"} :
            CASE out = "raise" ->
                   /\ EnsureRaise("ClientError", touched \cup {"upload_failed"})
                   /\ UNCHANGED <<data, idx, refs, handle, polls, next_handle, seen>>
              [] out = "PROCESSING" ->
                   /\ handle' = next_handle
                   /\ next_handle' = next_handle + 1
                   /\ seen' = [seen EXCEPT !.fresh = @ \cup {next_handle}]
                   /\ polls' = 0
                   /\ pc' = "ensure_wait"
                   /\ events' = events \cup touched
                   /\ UNCHANGED <<data, idx, refs, result>>
              [] OTHER ->
                   /\ Store(next_handle)
                   /\ next_handle' = next_handle + 1
                   /\ seen' = [seen EXCEPT !.fresh = @ \cup {next_handle}]
                   /\ events' = events \cup touched
                   /\ UNCHANGED <<handle, polls, result>>
    /\ UNCHANGED <<env, disk, retry, bureau_id, btm_present, report_file,
                   raw_text, payload, exc, raised>>

(* Lines 138-140 keep no count and have no limit: the loop goes round for  *)
(* as long as the state reads PROCESSING.  The model counts the rounds up  *)
(* to MaxPolls and then goes on counting from 1, so that each round is a   *)
(* step and the wait may go on for ever.                                   *)
NextPoll(n) == IF n < MaxPolls THEN n + 1 ELSE 1

(* _wait_active, lines 137-141: one sleep and one files.get; its locals   *)
(* end with it.                                                            *)
EnsurePoll ==
    /\ pc = "ensure_wait"
    /\ \E out \in FileStates \cup {"raise"} :
          CASE out = "raise" ->
                 /\ EnsureRaise("ClientError", {"upload_failed"})
                 /\ UNCHANGED <<data, idx, refs, handle, polls>>
            [] out = "PROCESSING" ->
                 /\ polls' = NextPoll(polls)
                 /\ UNCHANGED <<pc, data, idx, refs, handle, result, events>>
            [] OTHER ->
                 /\ Store(handle)
                 /\ handle' = 0
                 /\ polls' = 0
                 /\ UNCHANGED <<result, events>>
    /\ UNCHANGED <<env, disk, next_handle, uploads, stale, seen, retry, bureau_id,
                   btm_present, report_file, raw_text, payload, exc, raised>>

(* A save that empties the file before it has opened it for writing. *)
M_EnsureSave_truncates_first ==
    /\ pc = "ensure_loop"
    /\ idx > Len(Listing(files))
    /\ \E out \in {"ok", "open_fails", "write_fails"} :
          CASE out = "ok" ->
                 /\ disk' = Manifest(data)
                 /\ events' = events \cup {"manifest_write", "refs_returned"}
                 /\ pc' = "refs_check"
                 /\ UNCHANGED result
            [] out = "open_fails" ->
                 /\ EnsureRaise("PermissionError", {})
                 /\ disk' = CorruptManifest
            [] OTHER ->
                 /\ EnsureRaise("OSError", {"manifest_write"})
                 /\ disk' = CorruptManifest
    /\ UNCHANGED <<env, data, idx, refs, upload, retry, bureau_id, btm_present,
                   report_file, raw_text, payload, exc, raised>>

(* Lines 248-249: save() rewrites the manifest file; mkdir or the open may *)
(* fail (file untouched) and the write may fail (file cut short).          *)
EnsureSave ==
    /\ pc = "ensure_loop"
    /\ idx > Len(Listing(files))
    /\ \E out \in {"ok", "open_fails", "write_fails"} :
          CASE out = "ok" ->
                 /\ disk' = Manifest(data)
                 /\ events' = events \cup {"manifest_write", "refs_returned"}
                 /\ pc' = "refs_check"
                 /\ UNCHANGED result
            [] out = "open_fails" ->
                 /\ EnsureRaise("PermissionError", {})
                 /\ UNCHANGED disk
            [] OTHER ->
                 /\ EnsureRaise("OSError", {"manifest_write"})
                 /\ disk' = CorruptManifest
    /\ UNCHANGED <<env, data, idx, refs, upload, retry, bureau_id, btm_present,
                   report_file, raw_text, payload, exc, raised>>

(***************************************************************************)
(* _run_gemini_audit, continued.                                           *)
(***************************************************************************)
(* A test for None, which an empty list is not. *)
M_NoRefsIsNone(r) == FALSE

(* Line 556: not soul_refs. *)
NoRefs(r) == r = <<>>

(* Lines 556-557. *)
RefsCheck ==
    /\ pc = "refs_check"
    /\ IF NoRefs(refs)
       THEN Return(_empty_payload("INCOMPLETE", "NONE", JFloat(0), "SOUL_NO_PDFS_FOUND"))
       ELSE pc' = "select_btm" /\ UNCHANGED result
    /\ UNCHANGED <<env, manifest, upload, retry, bureau_id, btm_present, report_file,
                   raw_text, payload, exc, raised, events>>

(* Lines 562-563. *)
SelectBtm ==
    /\ pc = "select_btm"
    /\ btm_present' = (Cardinality(_select_btm_files(files, bureau_id)) > 0)
    /\ pc' = "upload_report"
    /\ UNCHANGED <<env, manifest, upload, retry, bureau_id, report_file,
                   raw_text, payload, exc, raised, result, events>>

(* Lines 568-569. *)
ReportRaise(e) ==
    Return(_empty_payload("INCOMPLETE", "NONE", JFloat(0),
                          "REPORT_UPLOAD_FAIL:" \o e))

(* Line 567, _upload_any up to the first look at the state. *)
UploadReport ==
    /\ pc = "upload_report"
    /\ Touch("upload_report")
    /\ \E out \in FileStates \cup {"raise"} :
          CASE out = "raise" ->
                 /\ ReportRaise("ClientError")
                 /\ UNCHANGED <<handle, polls, next_handle, report_file>>
            [] out = "PROCESSING" ->
                 /\ handle' = next_handle
                 /\ next_handle' = next_handle + 1
                 /\ polls' = 0
                 /\ pc' = "report_wait"
                 /\ UNCHANGED <<report_file, result>>
            [] OTHER ->
                 /\ report_file' = next_handle
                 /\ next_handle' = next_handle + 1
                 /\ pc' = "assemble"
                 /\ UNCHANGED <<handle, polls, result>>
    /\ UNCHANGED <<env, manifest, uploads, stale, seen, retry, bureau_id, btm_present,
                   raw_text, payload, exc, raised>>

(* _wait_active on the report: one sleep and one files.get. *)
ReportPoll ==
    /\ pc = "report_wait"
    /\ \E out \in FileStates \cup {"raise"} :
          CASE out = "raise" ->
                 /\ ReportRaise("ClientError")
                 /\ UNCHANGED <<handle, polls, report_file>>
            [] out = "PROCESSING" ->
                 /\ polls' = NextPoll(polls)
                 /\ UNCHANGED <<pc, handle, report_file, result>>
            [] OTHER ->
                 /\ report_file' = handle
                 /\ pc' = "assemble"
                 /\ handle' = 0
                 /\ polls' = 0
                 /\ UNCHANGED result
    /\ UNCHANGED <<env, manifest, next_handle, uploads, stale, seen, retry, bureau_id,
                   btm_present, raw_text, payload, exc, raised, events>>

(* Lines 572-593: the instruction is never empty (it holds the BUREAU_ID   *)
(* line), so line 574 is not reached; the SDK's Part and Content           *)
(* constructors may raise.                                                 *)
Assemble ==
    /\ pc = "assemble"
    /\ \E ok \in BOOLEAN :
          IF ok THEN pc' = "call_model" /\ UNCHANGED exc
          ELSE Raise("TypeError")
    /\ i' = 0
    /\ last_err' = ""
    /\ UNCHANGED <<env, manifest, upload, sleeps, model_calls, bureau_id, btm_present,
                   report_file, raw_text, payload, raised, result, events>>

(***************************************************************************)
(* _call_model_with_retries, lines 512-527.                                *)
(***************************************************************************)
(* What generate_content may raise: a 5xx or 429 answer, a client-side     *)
(* programming error.                                                      *)
ModelErrors == {"ServerError", "ValueError"}

(* Line 525. *)
Backoff(attempt) == BASE_BACKOFF_S * (2 ^ attempt)

(* A loop that goes round once more than range(MAX_RETRIES + 1). *)
M_InRange_one_more(attempt) == attempt <= MAX_RETRIES + 1

(* Line 515: for i in range(MAX_RETRIES + 1). *)
InRange(attempt) == attempt <= MAX_RETRIES

(* Lines 516-521: the call returns resp.text. *)
CallModelOk ==
    /\ pc = "call_model"
    /\ InRange(i)
    /\ raw_text' \in RawTexts
    /\ model_calls' = model_calls + 1
    /\ Touch("model_call")
    /\ pc' = "parse"
    /\ last_err' = ""
    /\ UNCHANGED <<env, manifest, upload, i, sleeps, bureau_id, btm_present,
                   report_file, payload, exc, raised, result>>

(* Lines 522-526: any exception is kept, slept on and retried. *)
CallModelFail ==
    /\ pc = "call_model"
    /\ InRange(i)
    /\ last_err' \in ModelErrors
    /\ model_calls' = model_calls + 1
    /\ Touch("model_call")
    /\ sleeps' = Append(sleeps, Backoff(i))
    /\ i' = i + 1
    /\ UNCHANGED <<pc, env, manifest, upload, bureau_id, btm_present,
                   report_file, raw_text, payload, exc, raised, result>>

(* Line 527 raises MODEL_CALL_FAIL:<type>; lines 607-608 return it. *)
CallModelExhausted ==
    /\ pc = "call_model"
    /\ ~InRange(i)
    /\ Return(_empty_payload("UNKNOWN", "NONE", JFloat(0),
                             "MODEL_CALL_FAIL:" \o last_err))
    /\ UNCHANGED <<env, manifest, upload, retry, bureau_id, btm_present,
                   report_file, raw_text, payload, exc, raised, events>>

(***************************************************************************)
(* Parse, normalize, gates: lines 610-628.                                 *)
(***************************************************************************)
(* json.loads(raw_text), lines 611-614: JSONDecodeError is handled here,   *)
(* the TypeError of a None text is not.                                    *)
Parse ==
    /\ pc = "parse"
    /\ CASE raw_text.k = "garbage" ->
               /\ Return(_empty_payload("UNKNOWN", "NONE", JFloat(0), "BAD_JSON_OUTPUT"))
               /\ UNCHANGED exc
         [] raw_text.k = "none" -> Raise("TypeError") /\ UNCHANGED result
         [] OTHER -> pc' = "normalize" /\ UNCHANGED <<exc, result>>
    /\ UNCHANGED <<env, manifest, upload, retry, bureau_id, btm_present,
                   report_file, raw_text, payload, raised, events>>

(* Line 616. *)
Normalize ==
    /\ pc = "normalize"
    /\ Touch("normalize")
    /\ LET r == _normalize_contract(raw_text.v)
       IN IF r.exc # ""
          THEN Raise(r.exc) /\ UNCHANGED payload
          ELSE /\ payload' = r.p
               /\ pc' = "evidence_gate"
               /\ UNCHANGED exc
    /\ UNCHANGED <<env, manifest, upload, retry, bureau_id, btm_present,
                   report_file, raw_text, raised, result>>

(* Line 617. *)
EvidenceGate ==
    /\ pc = "evidence_gate"
    /\ payload' = _evidence_gate(payload)
    /\ pc' = "confidence_gate"
    /\ UNCHANGED <<env, manifest, upload, retry, bureau_id, btm_present,
                   report_file, raw_text, exc, raised, result, events>>

(* Line 618. *)
ConfidenceGate ==
    /\ pc = "confidence_gate"
    /\ payload' = _confidence_gate(payload)
    /\ pc' = "trace"
    /\ UNCHANGED <<env, manifest, upload, retry, bureau_id, btm_present,
                   report_file, raw_text, exc, raised, result, events>>

(* Lines 622-626. *)
WithTrace(p, bureau, btm) ==
    IF p.notes = NOTES_IMMUTABLE
    THEN [p EXCEPT !.notes = NOTES_IMMUTABLE \o " | " \o "BUREAU:" \o bureau
                                 \o (IF btm THEN "|BTM:ON" ELSE "")]
    ELSE p

(* Lines 622-628. *)
TraceAndReturn ==
    /\ pc = "trace"
    /\ payload' = WithTrace(payload, bureau_id, btm_present)
    /\ Return(payload')
    /\ UNCHANGED <<env, manifest, upload, retry, bureau_id, btm_present,
                   report_file, raw_text, exc, raised, events>>

Next ==
    \/ CheckInput
    \/ MakeDirs
    \/ AuditExcept
    \/ MakeClient
    \/ PageGuard
    \/ DetectBureau
    \/ ManifestLoad
    \/ SoulDirCheck
    \/ EnsureBegin
    \/ EnsureSkip
    \/ EnsureStatRaise
    \/ EnsureReuse
    \/ EnsureUpload
    \/ EnsurePoll
    \/ EnsureSave
    \/ RefsCheck
    \/ SelectBtm
    \/ UploadReport
    \/ ReportPoll
    \/ Assemble
    \/ CallModelOk
    \/ CallModelFail
    \/ CallModelExhausted
    \/ Parse
    \/ Normalize
    \/ EvidenceGate
    \/ ConfidenceGate
    \/ TraceAndReturn

Spec == Init /\ [][Next]_vars

(* audit_credit_report runs on one thread, synchronously: while a          *)
(* statement is left to run, the interpreter runs it.  Nothing is assumed  *)
(* of what the remote service or the model answers.                        *)
LiveSpec == Spec /\ WF_vars(Next)

(***************************************************************************)
(* Successive calls: each _run_gemini_audit makes a ManifestManager of its *)
(* own on the shared manifest file (line 545) and calls                    *)
(* ensure_active_pdf_files (line 552); between two calls the reference     *)
(* directory may change.                                                   *)
(***************************************************************************)
MaxCalls == 2

(* What a reference file may be rewritten to: sizes 10 and 11, mtimes      *)
(* 100.0 s, 100.5 s and 101.0 s.                                           *)
FileVersions == {File(10, 200), File(10, 201), File(10, 202), File(11, 201)}

(* The call has returned its refs, or raised. *)
CallEnded == pc \in {"refs_check", "done"}

(* Lines 545-552 of the next run: a new manager, a new call. *)
NextCall ==
    /\ CallEnded
    /\ calls < MaxCalls
    /\ calls' = calls + 1
    /\ prev' = [ended |-> IF pc = "refs_check" THEN "returned" ELSE "raised",
                refs |-> refs, uploads |-> uploads, files |-> files]
    /\ pc' = "manifest_load"
    /\ data' = <<>>
    /\ idx' = 0
    /\ refs' = <<>>
    /\ handle' = 0
    /\ polls' = 0
    /\ stale' = {}
    /\ seen' = NothingSeen
    /\ changed' = {}
    /\ result' = NoPayload
    /\ events' = {}
    /\ UNCHANGED <<file_path, soul_dir, files, other, disk, next_handle, uploads,
                   retry, bureau_id, btm_present, report_file, raw_text, payload,
                   exc, raised>>

(* ensure_active_pdf_files called once more on the manager at hand        *)
(* (lines 218-224): self.data is what the call before left in it.         *)
CallAgain ==
    /\ CallEnded
    /\ calls < MaxCalls
    /\ calls' = calls + 1
    /\ prev' = [ended |-> IF pc = "refs_check" THEN "returned" ELSE "raised",
                refs |-> refs, uploads |-> uploads, files |-> files]
    /\ pc' = "ensure_begin"
    /\ idx' = 0
    /\ refs' = <<>>
    /\ handle' = 0
    /\ polls' = 0
    /\ stale' = {}
    /\ seen' = NothingSeen
    /\ changed' = {}
    /\ result' = NoPayload
    /\ events' = {}
    /\ UNCHANGED <<file_path, soul_dir, files, other, disk, data, next_handle,
                   uploads, retry, bureau_id, btm_present, report_file, raw_text,
                   payload, exc, raised>>

(* Before the new manager reads the manifest, or before the manager at    *)
(* hand is called once more, a reference file is rewritten: p.stat() of   *)
(* line 208 reads another size or another mtime.                           *)
Modify ==
    /\ \/ pc = "manifest_load"
       \/ pc = "ensure_begin" /\ "manifest_read" \notin events /\ changed = {}
    /\ calls > 1
    /\ \E nm \in SoulNames, new \in FileVersions :
          /\ files[nm].kind = "file"
          /\ new # files[nm]
          /\ files' = [files EXCEPT ![nm] = new]
          /\ changed' = {n \in SoulNames : files'[n] # prev.files[n]}
    /\ UNCHANGED <<pc, file_path, soul_dir, calls, prev, other, manifest, upload,
                   retry, bureau_id, btm_present, report_file, raw_text, payload,
                   exc, raised, result, events>>

CacheInit ==
    /\ pc = "manifest_load"
    /\ file_path = Path("tmp/report", ".pdf", TRUE)
    /\ soul_dir = "dir"
    /\ files \in SoulScenarios
    /\ disk \in {NoManifest, CorruptManifest, CachedManifest, NamelessManifest}
    /\ data = <<>>
    /\ idx = 0
    /\ refs = <<>>
    /\ handle = 0
    /\ polls = 0
    /\ next_handle = 2
    /\ uploads = [nm \in SoulNames |-> 0]
    /\ stale = {}
    /\ seen = NothingSeen
    /\ calls = 1
    /\ changed = {}
    /\ prev = NoCall
    /\ other = NoOther
    /\ bureau_id = "UNKNOWN"
    /\ btm_present = FALSE
    /\ report_file = 0
    /\ i = 0
    /\ last_err = ""
    /\ sleeps = <<>>
    /\ model_calls = 0
    /\ raw_text = NoText
    /\ payload = NoPayload
    /\ exc = ""
    /\ raised = ""
    /\ result = NoPayload
    /\ events = {}

CacheNext ==
    \/ ManifestLoad
    \/ SoulDirCheck
    \/ EnsureBegin
    \/ EnsureSkip
    \/ EnsureStatRaise
    \/ EnsureReuse
    \/ EnsureUpload
    \/ EnsurePoll
    \/ EnsureSave
    \/ NextCall
    \/ CallAgain
    \/ Modify

CacheSpec == CacheInit /\ [][CacheNext]_vars

(***************************************************************************)
(* Two runs at once: a second _run_gemini_audit (another session of the    *)
(* application) works on the same manifest file and the same reference     *)
(* directory.  Nothing in ManifestManager locks the file, so its steps     *)
(* interleave freely with those of the first run.  The second run is       *)
(* followed iteration by iteration, and its uploads succeed at once.       *)
(***************************************************************************)
OtherName == Listing(files)[other.idx]

OtherKey == _fingerprint(OtherName, files[OtherName])

OtherInLoop == other.pc = "loop" /\ other.idx <= Len(Listing(files))

(* Line 545 in the second run: ManifestManager.__init__ reads the file. *)
OtherLoad ==
    /\ other.pc = "start"
    /\ other' = [pc |-> "loop", data |-> _load(disk), idx |-> 1]
    /\ UNCHANGED <<pc, file_path, soul_dir, files, calls, changed, prev, manifest,
                   upload, retry, bureau_id, btm_present, report_file, raw_text,
                   payload, exc, raised, result, events>>

(* Lines 226-227 in the second run. *)
OtherSkip ==
    /\ OtherInLoop
    /\ files[OtherName].kind # "file"
    /\ other' = [other EXCEPT !.idx = @ + 1]
    /\ UNCHANGED <<pc, file_path, soul_dir, files, calls, changed, prev, manifest,
                   upload, retry, bureau_id, btm_present, report_file, raw_text,
                   payload, exc, raised, result, events>>

(* Lines 233-235 in the second run. *)
OtherReuse ==
    /\ OtherInLoop
    /\ files[OtherName].kind = "file"
    /\ HasHandle(other.data, OtherKey)
    /\ \E answer \in FileStates \cup {"raise"} : _remote_active(answer)
    /\ other' = [other EXCEPT !.idx = @ + 1]
    /\ UNCHANGED <<pc, file_path, soul_dir, files, calls, changed, prev, manifest,
                   upload, retry, bureau_id, btm_present, report_file, raw_text,
                   payload, exc, raised, result, events>>

(* Lines 238-246 in the second run. *)
OtherUpload ==
    /\ OtherInLoop
    /\ files[OtherName].kind = "file"
    /\ HasHandle(other.data, OtherKey) =>
          \E answer \in FileStates \cup {"raise"} : ~_remote_active(answer)
    /\ stale' = IF HasHandle(other.data, OtherKey) THEN stale \cup {OtherName}
                ELSE stale
    /\ uploads' = [uploads EXCEPT ![OtherName] = @ + 1]
    /\ other' = [other EXCEPT
                    !.data = (OtherKey :> Entry(next_handle, OtherName)) @@ @,
                    !.idx = @ + 1]
    /\ next_handle' = next_handle + 1
    /\ UNCHANGED <<pc, file_path, soul_dir, files, calls, changed, prev, manifest,
                   handle, polls, seen, retry, bureau_id, btm_present, report_file,
                   raw_text, payload, exc, raised, result, events>>

(* Lines 248-249 in the second run. *)
OtherSave ==
    /\ other.pc = "loop"
    /\ other.idx > Len(Listing(files))
    /\ disk' = Manifest(other.data)
    /\ other' = [other EXCEPT !.pc = "done"]
    /\ UNCHANGED <<pc, file_path, soul_dir, files, calls, changed, prev, data, idx,
                   refs, upload, retry, bureau_id, btm_present, report_file,
                   raw_text, payload, exc, raised, result, events>>

ConcInit ==
    /\ pc = "manifest_load"
    /\ file_path = Path("tmp/report", ".pdf", TRUE)
    /\ soul_dir = "dir"
    /\ files \in SoulScenarios
    /\ disk \in {NoManifest, CorruptManifest, CachedManifest, NamelessManifest}
    /\ data = <<>>
    /\ idx = 0
    /\ refs = <<>>
    /\ handle = 0
    /\ polls = 0
    /\ next_handle = 2
    /\ uploads = [nm \in SoulNames |-> 0]
    /\ stale = {}
    /\ seen = NothingSeen
    /\ calls = 1
    /\ changed = {}
    /\ prev = NoCall
    /\ other = [pc |-> "start", data |-> <<>>, idx |-> 0]
    /\ bureau_id = "UNKNOWN"
    /\ btm_present = FALSE
    /\ report_file = 0
    /\ i = 0
    /\ last_err = ""
    /\ sleeps = <<>>
    /\ model_calls = 0
    /\ raw_text = NoText
    /\ payload = NoPayload
    /\ exc = ""
    /\ raised = ""
    /\ result = NoPayload
    /\ events = {}

ConcNext ==
    \/ ManifestLoad
    \/ SoulDirCheck
    \/ EnsureBegin
    \/ EnsureSkip
    \/ EnsureStatRaise
    \/ EnsureReuse
    \/ EnsureUpload
    \/ EnsurePoll
    \/ EnsureSave
    \/ OtherLoad
    \/ OtherSkip
    \/ OtherReuse
    \/ OtherUpload
    \/ OtherSave

ConcSpec == ConcInit /\ [][ConcNext]_vars

(***************************************************************************)
(* Properties.                                                             *)
(***************************************************************************)
Done == pc = "done"

Threshold == JFloat(CONFIDENCE_GATE)

ResultKeys == {"version", "timestamp", "status", "risk_level", "findings",
               "confidence", "notes"}

Notes(tag) == NOTES_IMMUTABLE \o " | " \o tag

(* The model answered and the answer is the JSON value of kind kd. *)
Answered(kd) == raw_text.k = "json" /\ raw_text.v.k = kd

(* C1: audit_credit_report never raises; whatever the argument and the    *)
(* collaborators do, it returns a mapping holding all seven result keys.  *)
C1_NeverRaises ==
    Done =>
        /\ raised = ""
        /\ DOMAIN result = ResultKeys
        /\ result.version.k # "absent"
        /\ result.timestamp.k # "absent"
        /\ result.findings.k = "list"
        /\ result.confidence.k # "absent"
        /\ result.status # ""
        /\ result.risk_level # ""
        /\ result.notes # ""

(* A run in which the normalizer raised and the call still returned. *)
C1_Witness ==
    /\ Done
    /\ exc = "ValueError"
    /\ "normalize" \in events
    /\ raised = ""
    /\ result.notes = Notes("KERNEL_FAIL:ValueError")

(* C2: in every result returned, status RISK_DETECTED implies a non-empty *)
(* findings list.                                                         *)
C2_RiskRequiresEvidence ==
    Done /\ result.status = "RISK_DETECTED" => Len(result.findings.items) > 0

(* A returned RISK_DETECTED result from which the gate dropped a finding. *)
C2_Witness ==
    /\ Done
    /\ result.status = "RISK_DETECTED"
    /\ Answered("obj")
    /\ Len(result.findings.items) = 1
    /\ Len(raw_text.v.m.findings.items) = 2

(* text of a value is the reserved placeholder, compared case-insensitively *)
IsPlaceholder(v) == Upper(Strip(PyStr(v))) = "UNKNOWN"

(* present and non-empty *)
NonEmpty(v) == v.k \notin {"absent", "null"} /\ (v.k = "str" => v.s # "")

WellEvidenced(f) ==
    /\ f.k = "dict"
    /\ f.ev = "dict"
    /\ \A v \in {f.document, f.page, f.field} : NonEmpty(v) /\ ~IsPlaceholder(v)

(* C3: every finding of a returned result has a document, a page and a    *)
(* field that are present, non-empty and not the placeholder UNKNOWN.     *)
C3_EvidenceInvariant ==
    Done => \A j \in 1..Len(result.findings.items) :
                WellEvidenced(result.findings.items[j])

(* C4 as claimed: in every result, the early exits included, confidence   *)
(* below the threshold implies status UNKNOWN and no findings.            *)
C4_ConfidenceFloorEverywhere ==
    Done /\ FLt(result.confidence, Threshold) =>
        result.status = "UNKNOWN" /\ result.findings.items = <<>>

(* C4 as amended: confidence below the threshold implies no findings and  *)
(* risk level NONE, and status UNKNOWN once the model has been called;    *)
(* an exit before the model call returns INCOMPLETE or UNKNOWN.           *)
C4_ConfidenceFloor ==
    Done /\ FLt(result.confidence, Threshold) =>
        /\ result.findings.items = <<>>
        /\ result.risk_level = "NONE"
        /\ IF "model_call" \in events THEN result.status = "UNKNOWN"
           ELSE result.status \in {"INCOMPLETE", "UNKNOWN"}

(* A well-evidenced RISK_DETECTED answer of confidence 0.4, collapsed. *)
C4_Witness ==
    /\ Done
    /\ Answered("obj")
    /\ raw_text.v.m.status = JStr("RISK_DETECTED")
    /\ raw_text.v.m.findings = FList(<<F_good>>)
    /\ result.confidence = JFloat(40)
    /\ result.status = "UNKNOWN"
    /\ result.notes = Notes("CONFIDENCE_GATE_ACTIVE")

(* The path is empty or no string, names nothing that exists, or its      *)
(* lowercased text does not end in .pdf.                                  *)
RejectedPath(fp) ==
    \/ fp.k # "str"
    \/ fp.stem \o fp.ext = ""
    \/ ~fp.exists
    \/ Lower(fp.ext) # ".pdf"

(* C5: a rejected path returns INCOMPLETE, and in that run no client is   *)
(* built, the manifest is neither read nor written, nothing is uploaded   *)
(* or queried and the model is not called.                                *)
C5_RejectionBeforeCollaborators ==
    RejectedPath(file_path) =>
        /\ events = {}
        /\ model_calls = 0
        /\ next_handle = 2
        /\ Done => raised = "" /\ result.status = "INCOMPLETE"

(* An existing file that is no PDF, rejected. *)
C5_Witness ==
    /\ Done
    /\ file_path.k = "str"
    /\ file_path.exists
    /\ file_path.ext = ".txt"
    /\ result.notes = Notes("NOT_PDF")

ReportOrModel == {"upload_report", "model_call"}

EligibleFiles == {nm \in SoulNames : files[nm].kind = "file"}

(* C6: the report upload and the model call happen only after reference   *)
(* resolution returned at least one reference; a run that reaches          *)
(* reference resolution with the directory missing, with no eligible PDF  *)
(* in it, or whose resolution raises, returns INCOMPLETE without either.  *)
C6_ModelAfterReferences ==
    /\ events \cap ReportOrModel # {} =>
          "refs_returned" \in events /\ Len(refs) >= 1
    /\ /\ Done
       /\ "manifest_read" \in events
       /\ \/ soul_dir = "missing"
          \/ EligibleFiles = {}
          \/ "refs_raised" \in events
       => /\ result.status = "INCOMPLETE"
          /\ events \cap ReportOrModel = {}

(* Resolution raised after the first of two files had been uploaded. *)
C6_Witness ==
    /\ Done
    /\ "refs_raised" \in events
    /\ Len(refs) = 1
    /\ result.status = "INCOMPLETE"

(* C7: _normalize_contract raises for no input, and for an input that is  *)
(* no mapping it returns the canonical unresolved-empty result.           *)
C7_NormalizerTotal ==
    /\ ~(pc = "except" /\ "normalize" \in events)
    /\ pc = "evidence_gate" /\ ~Answered("obj") =>
          /\ payload.status = "UNKNOWN"
          /\ payload.risk_level = "NONE"
          /\ payload.findings = FList(<<>>)
          /\ payload.confidence = JFloat(0)

(* The answer is text that is no JSON object. *)
NotAnObject == raw_text.k = "garbage" \/ (raw_text.k = "json" /\ ~Answered("obj"))

(* C8: an answer that is no parseable JSON object is reported as UNKNOWN  *)
(* with risk level NONE and no findings.                                  *)
C8_MalformedIsUnknown ==
    Done /\ NotAnObject =>
        /\ result.status = "UNKNOWN"
        /\ result.risk_level = "NONE"
        /\ result.findings.items = <<>>

(* The answer is a bare string: text that is no JSON, or a JSON string. *)
BareString == raw_text.k = "garbage" \/ Answered("str") \/ Answered("estr")

(* C9: a bare string yields the canonical unresolved-empty result tagged  *)
(* BAD_JSON_OUTPUT, and the normalizer is not run on it.                  *)
C9_BareStringIsBadJson ==
    Done /\ BareString =>
        /\ result = _empty_payload("UNKNOWN", "NONE", JFloat(0), "BAD_JSON_OUTPUT")
        /\ "normalize" \notin events

(* C10: the version of a result is KERNEL_VERSION and its timestamp is    *)
(* the pipeline's clock reading, whatever the answer carries.             *)
C10_VersionAndTimestampForced ==
    Done =>
        /\ result.version = JStr(KERNEL_VERSION)
        /\ result.timestamp = _utc_iso

(* Names of the exception types a run can meet. *)
ExceptionNames == {"ClientError", "FileNotFoundError", "OSError", "PermissionError",
                   "RuntimeError", "ServerError", "TypeError", "ValueError"}

(* The diagnostic tokens the pipeline writes. *)
PipelineTokens ==
    {"BAD_INPUT", "FILE_NOT_FOUND", "NOT_PDF", "SOUL_DIR_MISSING",
     "SOUL_NO_PDFS_FOUND", "BAD_JSON_OUTPUT", "CONFIDENCE_GATE_ACTIVE",
     "PDF_PAGE_LIMIT_EXCEEDED:1001>1000"}
        \cup {tag \o e : tag \in {"SOUL_MANIFEST_FAIL:", "REPORT_UPLOAD_FAIL:",
                                  "MODEL_CALL_FAIL:", "KERNEL_FAIL:"},
                         e \in ExceptionNames}
        \cup {"BUREAU:" \o b \o on : b \in Bureaus, on \in {"", "|BTM:ON"}}

InUnitInterval(c) == c.k = "float" /\ 0 <= c.n /\ c.n <= 100

(* C12: whatever number the response carries as confidence, the           *)
(* confidence of the result lies in [0,1].                                *)
C12_ConfidenceInUnitInterval ==
    Done /\ Answered("obj") /\ raw_text.v.m.confidence.k \in {"float", "int"} =>
        InUnitInterval(result.confidence)

(* Failures of the model call that are neither rate limiting nor         *)
(* transient.                                                             *)
TerminalErrors == {"ValueError"}

(* C13: a failure of the model call that is not transient ends the call:  *)
(* no attempt follows it and no backoff is slept on it.                   *)
C13_TerminalFailureNotRetried ==
    last_err \in TerminalErrors =>
        /\ pc = "done"
        /\ Len(sleeps) = model_calls - 1

(* The refs of rs that stand for the local file nm. *)
RefsOf(rs, nm) == SelectSeq(rs, LAMBDA r : r.local = nm)

(* The call has returned, the call before it had returned a ref for nm. *)
ReturnedAgain(nm) ==
    /\ pc = "refs_check"
    /\ prev.ended = "returned"
    /\ RefsOf(prev.refs, nm) # <<>>

(* C14: when a call returns after a call that returned, a file that did   *)
(* not change and whose handle the liveness query found ACTIVE was not    *)
(* uploaded by the second call, which returns the handle of the first.    *)
C14_CacheReuse ==
    \A nm \in SoulNames :
        ReturnedAgain(nm) /\ nm \notin changed /\ nm \notin stale =>
            /\ uploads[nm] = prev.uploads[nm]
            /\ RefsOf(refs, nm) = RefsOf(prev.refs, nm)

(* The first call uploaded METRO2.pdf, the second reused the handle. *)
C14_Witness ==
    /\ calls = 2
    /\ ReturnedAgain("METRO2.pdf")
    /\ changed = {}
    /\ stale = {}
    /\ prev.uploads["METRO2.pdf"] = 1
    /\ uploads["METRO2.pdf"] = 1
    /\ "liveness" \in events
    /\ "manifest_read" \in events
    /\ refs = prev.refs

(* The keys of the manifest d whose entry stands for the local file nm. *)
EntriesOf(d, nm) == {k \in DOMAIN d : d[k].local = nm}

(* C15: a file whose size or modification time changed after it was       *)
(* cached is uploaded again by the next call, and the manifest then holds *)
(* one entry for it, with the new handle.                                 *)
C15_CacheInvalidation ==
    \A nm \in SoulNames :
        ReturnedAgain(nm) /\ nm \in changed =>
            /\ uploads[nm] = prev.uploads[nm] + 1
            /\ disk.k = "json"
            /\ Cardinality(EntriesOf(disk.data, nm)) = 1
            /\ \A k \in EntriesOf(disk.data, nm) :
                  /\ disk.data[k].name = RefsOf(refs, nm)[1].name
                  /\ disk.data[k].name # RefsOf(prev.refs, nm)[1].name

(* C16: when the upload of a reference file fails, the call goes on: it   *)
(* looks at every file of the listing, saves the manifest and returns.    *)
C16_UploadFailureIsolated ==
    Done /\ "upload_failed" \in events =>
        /\ idx > Len(Listing(files))
        /\ "manifest_write" \in events
        /\ "refs_returned" \in events

(* Both runs have ended their call with a saved manifest. *)
BothSaved == pc = "refs_check" /\ other.pc = "done" /\ disk.k = "json"

(* C17: two runs on one manifest file are serialized: when both have      *)
(* saved and every liveness query answered ACTIVE, no fingerprint was     *)
(* uploaded by both, and the file holds the entries either run persisted. *)
C17_ManifestSerialized ==
    BothSaved /\ stale = {} =>
        /\ \A k \in DOMAIN data \cap DOMAIN other.data :
              data[k].name = other.data[k].name
        /\ \A k \in DOMAIN data : k \in DOMAIN disk.data /\ disk.data[k] = data[k]
        /\ \A k \in DOMAIN other.data :
              k \in DOMAIN disk.data /\ disk.data[k] = other.data[k]

(* The answer as _normalize_contract returns it. *)
Normalized == _normalize_contract(raw_text.v).p

(* status, risk_level, findings and confidence of a payload *)
Verdict(p) == <<p.status, p.risk_level, p.findings, p.confidence>>

(* The answer reports a risk, with findings that all pass the evidence    *)
(* filter, and a confidence below the threshold.                          *)
EvidencedButUnsure ==
    /\ Answered("obj")
    /\ raw_text.v.m.status = JStr("RISK_DETECTED")
    /\ raw_text.v.m.findings.k = "list"
    /\ raw_text.v.m.findings.items # <<>>
    /\ \A j \in 1..Len(raw_text.v.m.findings.items) :
          EvidenceValid(raw_text.v.m.findings.items[j])
    /\ raw_text.v.m.confidence.k = "float"
    /\ raw_text.v.m.confidence.n < CONFIDENCE_GATE

(* C18: the confidence gate overrides a well-evidenced risk finding: the  *)
(* result is UNKNOWN, NONE, without findings, with the answer's           *)
(* confidence; and what the confidence gate returned is what the          *)
(* pipeline returns, the notes apart.                                     *)
C18_ConfidenceGateLast ==
    /\ Done /\ EvidencedButUnsure =>
          Verdict(result) = <<"UNKNOWN", "NONE", FList(<<>>), raw_text.v.m.confidence>>
    /\ Done /\ "normalize" \in events /\ exc = "" =>
          Verdict(result) = Verdict(_confidence_gate(_evidence_gate(Normalized)))
    /\ pc = "trace" => Verdict(WithTrace(payload, bureau_id, btm_present)) = Verdict(payload)

(* Two evidenced findings and confidence 0.4, returned as UNKNOWN. *)
C18_Witness ==
    /\ Done
    /\ EvidencedButUnsure
    /\ Len(raw_text.v.m.findings.items) = 2
    /\ Verdict(result) = <<"UNKNOWN", "NONE", FList(<<>>), JFloat(40)>>

(* The evidence gate is about to hand over what it made of Normalized. *)
Gated == pc = "confidence_gate"

(* The payload reports a risk and the evidence filter keeps none of its   *)
(* findings.                                                              *)
RiskWithoutEvidence(p) ==
    p.status = "RISK_DETECTED" /\ FilterFindings(p.findings.items) = <<>>

(* min(c, 0.5) of a number c *)
CappedAtHalf(c) == IF c.n < 50 THEN c ELSE JFloat(50)

(* C19: the evidence gate turns a RISK_DETECTED payload none of whose     *)
(* findings survive into UNKNOWN, NONE and min(confidence, 0.5), and      *)
(* leaves status, risk_level and confidence of any other payload alone.   *)
C19_EvidenceGateDowngrade ==
    Gated =>
        IF RiskWithoutEvidence(Normalized)
        THEN /\ payload.status = "UNKNOWN"
             /\ payload.risk_level = "NONE"
             /\ Normalized.confidence.k = "float" =>
                   payload.confidence = CappedAtHalf(Normalized.confidence)
        ELSE /\ payload.status = Normalized.status
             /\ payload.risk_level = Normalized.risk_level
             /\ payload.confidence = Normalized.confidence

(* A risk whose one finding names no page, at confidence 0.95. *)
C19_Witness ==
    /\ Gated
    /\ Normalized.status = "RISK_DETECTED"
    /\ Normalized.findings = FList(<<F_pageUnknown>>)
    /\ Normalized.confidence = JFloat(95)
    /\ Verdict(payload) = <<"UNKNOWN", "NONE", FList(<<>>), JFloat(50)>>

(* C20: the evidence gate, applied to what it returned, returns the same  *)
(* status, risk_level, findings (coerced pages included) and confidence.  *)
C20_EvidenceGateIdempotent ==
    Gated => Verdict(_evidence_gate(payload)) = Verdict(payload)

(* A kept finding whose page " 4 " was coerced to 4, beside a dropped one. *)
C20_Witness ==
    /\ Gated
    /\ Normalized.findings = FList(<<F_pageText, F_noEvidence>>)
    /\ Len(payload.findings.items) = 1
    /\ payload.findings.items[1].page = JInt(4)
    /\ payload.status = "RISK_DETECTED"

(* status, risk_level, findings, confidence and notes of a payload *)
Shown(p) == <<p.status, p.risk_level, p.findings, p.confidence, p.notes>>

(* The confidence gate has returned. *)
ConfidenceGated == pc = "trace"

(* C21: the confidence gate, applied to what it returned, returns the     *)
(* same status, risk_level, findings, confidence and notes; a collapsed   *)
(* result carries the CONFIDENCE_GATE_ACTIVE suffix once.                 *)
C21_ConfidenceGateIdempotent ==
    /\ ConfidenceGated => Shown(_confidence_gate(payload)) = Shown(payload)
    /\ Gated =>
          LET g == _confidence_gate(payload)
          IN /\ Shown(_confidence_gate(g)) = Shown(g)
             /\ FLt(_coerce_float(payload.confidence, JFloat(0)),
                    JFloat(CONFIDENCE_GATE)) =>
                   Shown(_confidence_gate(g)) =
                      <<"UNKNOWN", "NONE", FList(<<>>),
                        _coerce_float(payload.confidence, JFloat(0)),
                        NOTES_IMMUTABLE \o " | CONFIDENCE_GATE_ACTIVE">>

(* A result collapsed at confidence 0.4, which the gate would collapse    *)
(* again.                                                                 *)
C21_Witness ==
    /\ ConfidenceGated
    /\ Normalized.status = "OK"
    /\ Shown(payload) = <<"UNKNOWN", "NONE", FList(<<>>), JFloat(40),
                          NOTES_IMMUTABLE \o " | CONFIDENCE_GATE_ACTIVE">>
    /\ FLt(payload.confidence, JFloat(CONFIDENCE_GATE))

(* The value itself when it is one of the allowed strings, else the default. *)
ExactEnum(x, default, allowed) ==
    IF x.k = "str" /\ x.s \in allowed THEN x.s ELSE default

(* _normalize_contract has returned. *)
NormalizedNow == pc = "evidence_gate"

(* C22: the normalizer's status is the answer's status when that is       *)
(* exactly one of the five allowed values and UNKNOWN otherwise, its      *)
(* risk_level the answer's when that is exactly one of the four allowed   *)
(* values and NONE otherwise; every returned status and risk_level is     *)
(* allowed.                                                               *)
C22_EnumExact ==
    /\ NormalizedNow =>
          /\ payload.status =
                ExactEnum(PyDict(raw_text.v).m.status, "UNKNOWN", ALLOWED_STATUS)
          /\ payload.risk_level =
                ExactEnum(PyDict(raw_text.v).m.risk_level, "NONE", ALLOWED_RISK)
    /\ Done /\ raised = "" =>
          result.status \in ALLOWED_STATUS /\ result.risk_level \in ALLOWED_RISK

(* The run is inside _wait_active. *)
Waiting == pc \in {"ensure_wait", "report_wait"}

(* C25: the wait for an uploaded file ends, whatever the remote service   *)
(* answers.                                                               *)
C25_WaitEnds == Waiting ~> ~Waiting

(* The run is inside _call_model_with_retries. *)
Retrying == pc = "call_model"

(* A model call has returned its text. *)
Succeeded == raw_text # NoText

(* Every attempt has failed. *)
Exhausted == i > MAX_RETRIES

(* C23: the retry loop makes at most MAX_RETRIES + 1 calls and ends (it    *)
(* can always take a step, and each step leaves it or adds one to an       *)
(* attempt count that never passes MAX_RETRIES + 1); the first call that   *)
(* succeeds is the last call made and its text is what the pipeline        *)
(* parses; when every attempt fails the result is UNKNOWN with             *)
(* MODEL_CALL_FAIL and the kind of the last error in the notes.            *)
C23_RetryBounded ==
    /\ [](/\ model_calls <= MAX_RETRIES + 1
          /\ Succeeded => ~Retrying /\ model_calls = i + 1 /\ i <= MAX_RETRIES
          /\ Retrying =>
                /\ model_calls = i
                /\ i <= MAX_RETRIES + 1
                /\ ENABLED (CallModelOk \/ CallModelFail \/ CallModelExhausted)
          /\ Done /\ Exhausted =>
                /\ ~Succeeded
                /\ model_calls = MAX_RETRIES + 1
                /\ last_err \in ModelErrors
                /\ result.status = "UNKNOWN"
                /\ result.notes =
                      NOTES_IMMUTABLE \o " | MODEL_CALL_FAIL:" \o last_err)
    /\ [][/\ Succeeded => model_calls' = model_calls /\ raw_text' = raw_text
          /\ Retrying /\ ~Retrying' /\ ~Exhausted => Succeeded'
          /\ Retrying /\ Retrying' => i' = i + 1]_vars

(* Four calls failed, the last with a ServerError, and the run returned    *)
(* UNKNOWN.                                                                *)
C23_Witness ==
    /\ Done
    /\ Exhausted
    /\ model_calls = MAX_RETRIES + 1
    /\ last_err = "ServerError"
    /\ result.status = "UNKNOWN"
    /\ result.notes = NOTES_IMMUTABLE \o " | MODEL_CALL_FAIL:ServerError"

(* The delays slept so far are BASE_BACKOFF_S * 2^k for k = 0, 1, ... *)
Exponential ==
    \A k \in 1..Len(sleeps) : sleeps[k] = BASE_BACKOFF_S * (2 ^ (k - 1))

(* C24: the delay after failed attempt i is BASE_BACKOFF_S * 2^i, and a   *)
(* delay is slept only when another attempt follows it: a loop that is    *)
(* exhausted after MAX_RETRIES + 1 failures has slept MAX_RETRIES times.  *)
C24_BackoffOnlyBetweenAttempts ==
    /\ Exponential
    /\ Retrying /\ Exhausted => Len(sleeps) = MAX_RETRIES

(* ensure_active_pdf_files has returned its refs. *)
Returned == pc = "refs_check"

(* The manifest entry of the reference file nm as it is now. *)
EntryOf(nm) == data[_fingerprint(nm, files[nm])]

(* C26: every reference of the call names a handle that the liveness      *)
(* query of this call answered ACTIVE for, or that this call uploaded;    *)
(* an entry whose handle was not found ACTIVE, or that names no handle,   *)
(* is not reused: the call returns a handle it uploaded for that file     *)
(* and has put it in the entry of the file's fingerprint.                 *)
C26_NoStaleReference ==
    /\ \A k \in 1..Len(refs) :
          /\ refs[k].name \in seen.live \cup seen.fresh
          /\ refs[k].name # 0
    /\ Returned =>
          \A nm \in SoulNames :
             files[nm].kind = "file" =>
                /\ Len(RefsOf(refs, nm)) = 1
                /\ EntryOf(nm).name = RefsOf(refs, nm)[1].name
                /\ nm \in stale => EntryOf(nm).name \in seen.fresh
                /\ HasHandle(data, _fingerprint(nm, files[nm]))

(* A call that reused one handle found ACTIVE and uploaded another file   *)
(* again because its handle was not.                                      *)
C26_Witness ==
    /\ Returned
    /\ stale # {}
    /\ seen.live # {}
    /\ \E k \in 1..Len(refs) : refs[k].name \in seen.live
    /\ \E k \in 1..Len(refs) : refs[k].local \in stale /\ refs[k].name \in seen.fresh

(* A new ManifestManager is made (line 545 of the next run). *)
NewManager == pc # "manifest_load" /\ pc' = "manifest_load"

(* The step keeps every fingerprint of self.data, and changes no entry    *)
(* but that of the file an upload has just returned for.                  *)
EntriesKept ==
    /\ DOMAIN data \subseteq DOMAIN data'
    /\ \A k \in DOMAIN data :
          data'[k] # data[k] =>
             /\ pc \in {"ensure_loop", "ensure_wait"}
             /\ k = CurKey
             /\ data'[k].name \in seen'.fresh

(* C27: on one ManifestManager the fingerprints of the manifest only      *)
(* grow, an entry being overwritten only under its own fingerprint by an  *)
(* upload; when a call has returned, the manifest file holds what         *)
(* self.data holds, with an entry naming the handle of every returned     *)
(* reference.                                                             *)
C27_ManifestGrowsAndPersists ==
    /\ [][~NewManager => EntriesKept]_vars
    /\ [](Returned =>
             /\ disk = Manifest(data)
             /\ \A k \in 1..Len(refs) :
                   \E key \in DOMAIN disk.data :
                      /\ disk.data[key].name = refs[k].name
                      /\ disk.data[key].local = refs[k].local)

(* The second call on one manager has returned after a reference file     *)
(* changed: the manifest holds the old fingerprint and the new one, and   *)
(* the file on disk holds both.                                           *)
C27_Witness ==
    /\ Returned
    /\ calls = 2
    /\ "manifest_read" \notin events
    /\ prev.ended = "returned"
    /\ changed = {"METRO2.pdf"}
    /\ Cardinality(EntriesOf(data, "METRO2.pdf")) = 2
    /\ disk = Manifest(data)
    /\ Len(refs) >= 1

(* ensure_active_pdf_files has raised before save() wrote to the file:    *)
(* the directory is missing, a stat or an upload raised, or save() could  *)
(* not open the file.                                                     *)
RaisedBeforeWrite ==
    /\ Done
    /\ "refs_raised" \in events
    /\ "manifest_write" \notin events

(* The handles the manifest file holds. *)
Persisted == {disk.data[k].name : k \in DOMAIN disk.data}

(* The handles self.data holds. *)
InMemory == {data[k].name : k \in DOMAIN data}

(* C28: no step of ensure_active_pdf_files but the write of save() changes *)
(* the manifest file; when the call raises before that write, the file    *)
(* holds none of the handles the call uploaded, though self.data may.     *)
C28_FileUntouchedOnException ==
    /\ [][disk' # disk =>
             /\ pc = "ensure_loop"
             /\ idx > Len(Listing(files))
             /\ "manifest_write" \in events']_vars
    /\ [](RaisedBeforeWrite => Persisted \cap seen.fresh = {})

(* The first file was uploaded and entered in self.data, the upload of    *)
(* the second raised: the file still holds the one entry it held.         *)
C28_Witness ==
    /\ RaisedBeforeWrite
    /\ "upload_failed" \in events
    /\ seen.fresh # {}
    /\ seen.fresh \subseteq InMemory
    /\ disk = CachedManifest
    /\ calls = 1

(* c >= threshold, as a comparison of numbers: false of NaN. *)
AtLeastThreshold(c) == c.k = "float" /\ c.n >= CONFIDENCE_GATE

(* C29: a returned result that has findings has a confidence at or above  *)
(* the threshold, and comes from a run that resolved the references,      *)
(* called the model and normalized and gated its answer.                  *)
C29_FindingsAboveFloor ==
    Done /\ raised = "" /\ result.findings.items # <<>> =>
        /\ AtLeastThreshold(result.confidence)
        /\ {"refs_returned", "model_call", "normalize"} \subseteq events
        /\ Verdict(result) = Verdict(_confidence_gate(_evidence_gate(Normalized)))

====
